---- MODULE Spec2Model ----
(***************************************************************************)
(* The redraw-event decoder of src/src/events.rs.                          *)
(*                                                                         *)
(* A generic value node (rmpv::Value) is a record tagged by "kind".  The   *)
(* decoders are operators computed as the source computes them; a call of  *)
(* parse_neovim_event is run as a state machine, one step per iteration of *)
(* its loop over the payload.                                              *)
(*                                                                         *)
(* A decoder's outcome is Ok(v), Err(e) or Panic: the source aborts        *)
(* (Option::unwrap on None) instead of returning on some inputs.           *)
(***************************************************************************)
EXTENDS Integers, Sequences, FiniteSets

VARIABLES event_name, events, idx, resulting_events, result

vars == <<event_name, events, idx, resulting_events, result>>

(***************************************************************************)
(* Bounds of the explored inputs.                                          *)
(***************************************************************************)
MaxPayload == 2
MaxOccurrences == 2
MaxAttributes == 2
MaxCells == 2

(***************************************************************************)
(* rmpv::Value.  An Integer node holds val, plus 2^63 when wide is TRUE    *)
(* (a u64 above i64::MAX; the checker's integers are 32 bits wide, so the  *)
(* high part is kept as a flag).  A String node whose bytes are not UTF-8  *)
(* has utf8 = FALSE.                                                       *)
(***************************************************************************)
Nil == [kind |-> "Nil"]
Boolean(b) == [kind |-> "Boolean", val |-> b]
Integer(n) == [kind |-> "Integer", val |-> n, wide |-> FALSE]
WideInteger(n) == [kind |-> "Integer", val |-> n, wide |-> TRUE]
String(s) == [kind |-> "String", utf8 |-> TRUE, val |-> s]
BadString(s) == [kind |-> "String", utf8 |-> FALSE, val |-> s]
Array(s) == [kind |-> "Array", val |-> s]
Map(s) == [kind |-> "Map", val |-> s]

(***************************************************************************)
(* Option, Result and EventParseError.                                     *)
(***************************************************************************)
None == <<>>
Some(x) == <<x>>

Ok(v) == [tag |-> "Ok", v |-> v]
Err(e) == [tag |-> "Err", e |-> e]
Panic == [tag |-> "Panic"]

IsOk(r) == r.tag = "Ok"
IsErr(r) == r.tag = "Err"
IsPanic(r) == r.tag = "Panic"

InvalidArray(v) == [err |-> "InvalidArray", value |-> v]
InvalidMap(v) == [err |-> "InvalidMap", value |-> v]
InvalidString(v) == [err |-> "InvalidString", value |-> v]
InvalidU64(v) == [err |-> "InvalidU64", value |-> v]
InvalidI64(v) == [err |-> "InvalidI64", value |-> v]
InvalidEventFormat == [err |-> "InvalidEventFormat"]

\* The `?` operator (e.g. events.rs:94): continue with the value of an Ok,
\* return anything else.
Try(r, F(_)) == IF IsOk(r) THEN F(r.v) ELSE r

(***************************************************************************)
(* rmpv::Integer::as_u64 / as_i64 and the u64 they yield.                  *)
(***************************************************************************)
U64(n, w) == [val |-> n, wide |-> w]

as_u64(i) == IF i.wide \/ i.val >= 0 THEN Some(U64(i.val, i.wide)) ELSE None
as_i64(i) == IF i.wide THEN None ELSE Some(i.val)

\* Color4f: each channel c stands for the float c / 255.0 (a = 255 is 1.0).
unpack_color(packed_color) ==
    [r |-> (packed_color.val \div 65536) % 256,
     g |-> (packed_color.val \div 256) % 256,
     b |-> packed_color.val % 256,
     a |-> 255]

(***************************************************************************)
(* Value accessors.                                                        *)
(***************************************************************************)
parse_array(array_value) ==
    IF array_value.kind = "Array" THEN Ok(array_value.val)
    ELSE Err(InvalidArray(array_value))

parse_map(map_value) ==
    IF map_value.kind = "Map" THEN Ok(map_value.val)
    ELSE Err(InvalidMap(map_value))

parse_string(string_value) ==
    IF string_value.kind = "String"
    THEN IF string_value.utf8 THEN Ok(string_value.val)
         ELSE Err(InvalidString(string_value))
    ELSE Err(InvalidString(string_value))

parse_u64(u64_value) ==
    IF u64_value.kind = "Integer"
    THEN IF as_u64(u64_value) # None THEN Ok(as_u64(u64_value)[1])
         ELSE Err(InvalidU64(u64_value))
    ELSE Err(InvalidU64(u64_value))

parse_i64(i64_value) ==
    IF i64_value.kind = "Integer"
    THEN IF as_i64(i64_value) # None THEN Ok(as_i64(i64_value)[1])
         ELSE Err(InvalidI64(i64_value))
    ELSE Err(InvalidI64(i64_value))

(***************************************************************************)
(* Types of crate::editor that the decoders populate.  Their definitions   *)
(* are outside events.rs; they are taken from the data model of the        *)
(* specification.                                                          *)
(***************************************************************************)
Colors_new(foreground, background, special) ==
    [foreground |-> foreground, background |-> background, special |-> special]

Style_new(colors) ==
    [colors |-> colors, reverse |-> FALSE, italic |-> FALSE, bold |-> FALSE,
     strikethrough |-> FALSE, underline |-> FALSE, undercurl |-> FALSE,
     blend |-> 0]

CursorMode_new == [shape |-> None, style_id |-> None]

CursorShape_from_type_name(name) ==
    IF name \in {"block", "horizontal", "vertical"} THEN Some(name) ELSE None

(***************************************************************************)
(* Per-event decoders: one occurrence's argument array to one event.       *)
(***************************************************************************)
parse_set_title(set_title_arguments) ==
    IF Len(set_title_arguments) = 1
    THEN Try(parse_string(set_title_arguments[1]), LAMBDA title:
         Ok([ev |-> "SetTitle", title |-> title]))
    ELSE Err(InvalidEventFormat)

\* The inner loop of parse_mode_info_set over the entries of one info map,
\* from entry k on.
RECURSIVE parse_mode_info_entries(_, _, _)
parse_mode_info_entries(info_map, k, mode_info) ==
    IF k > Len(info_map) THEN Ok(mode_info)
    ELSE Try(parse_string(info_map[k][1]), LAMBDA name:
         IF name = "cursor_shape"
         THEN Try(parse_string(info_map[k][2]), LAMBDA shape:
              parse_mode_info_entries(info_map, k + 1,
                  [mode_info EXCEPT !.shape = CursorShape_from_type_name(shape)]))
         ELSE IF name = "attr_id"
         THEN Try(parse_u64(info_map[k][2]), LAMBDA id:
              parse_mode_info_entries(info_map, k + 1,
                  [mode_info EXCEPT !.style_id = Some(id)]))
         ELSE parse_mode_info_entries(info_map, k + 1, mode_info))

\* The outer loop of parse_mode_info_set over the mode-info list, from k on.
RECURSIVE parse_mode_info_values(_, _, _)
parse_mode_info_values(mode_info_values, k, cursor_modes) ==
    IF k > Len(mode_info_values) THEN Ok(cursor_modes)
    ELSE Try(parse_map(mode_info_values[k]), LAMBDA info_map:
         Try(parse_mode_info_entries(info_map, 1, CursorMode_new), LAMBDA mode_info:
         parse_mode_info_values(mode_info_values, k + 1,
                                Append(cursor_modes, mode_info))))

parse_mode_info_set(mode_info_set_arguments) ==
    IF Len(mode_info_set_arguments) = 2
    THEN Try(parse_array(mode_info_set_arguments[2]), LAMBDA mode_info_values:
         Try(parse_mode_info_values(mode_info_values, 1, <<>>), LAMBDA cursor_modes:
         Ok([ev |-> "ModeInfoSet", cursor_modes |-> cursor_modes])))
    ELSE Err(InvalidEventFormat)

parse_mode_change(mode_change_arguments) ==
    IF Len(mode_change_arguments) = 2
    THEN Try(parse_u64(mode_change_arguments[2]), LAMBDA mode_index:
         Ok([ev |-> "ModeChange", mode_index |-> mode_index]))
    ELSE Err(InvalidEventFormat)

\* Variant of parse_grid_resize that accepts trailing arguments;
\* C4_WrongLengthFailsForDecodedNames must tell it from the source's.
parse_grid_resize_at_least(grid_resize_arguments) ==
    IF Len(grid_resize_arguments) >= 3
    THEN Try(parse_u64(grid_resize_arguments[1]), LAMBDA grid:
         Try(parse_u64(grid_resize_arguments[2]), LAMBDA width:
         Try(parse_u64(grid_resize_arguments[3]), LAMBDA height:
         Ok([ev |-> "Resize", grid |-> grid, width |-> width, height |-> height]))))
    ELSE Err(InvalidEventFormat)

parse_grid_resize(grid_resize_arguments) ==
    IF Len(grid_resize_arguments) = 3
    THEN Try(parse_u64(grid_resize_arguments[1]), LAMBDA grid:
         Try(parse_u64(grid_resize_arguments[2]), LAMBDA width:
         Try(parse_u64(grid_resize_arguments[3]), LAMBDA height:
         Ok([ev |-> "Resize", grid |-> grid, width |-> width, height |-> height]))))
    ELSE Err(InvalidEventFormat)

parse_default_colors(default_colors_arguments) ==
    IF Len(default_colors_arguments) = 5
    THEN Try(parse_u64(default_colors_arguments[1]), LAMBDA foreground:
         Try(parse_u64(default_colors_arguments[2]), LAMBDA background:
         Try(parse_u64(default_colors_arguments[3]), LAMBDA special:
         Ok([ev |-> "DefaultColorsSet",
             colors |-> Colors_new(Some(unpack_color(foreground)),
                                   Some(unpack_color(background)),
                                   Some(unpack_color(special)))]))))
    ELSE Err(InvalidEventFormat)

\* Option::unwrap: the value of a Some, an abort on None.
unwrap(o) == IF o # None THEN Ok(o[1]) ELSE Panic

\* One iteration of the loop of parse_hl_attr_define over the attribute map:
\* the style after the entry, or the abort of an unwrap.
hl_attribute(style, attribute) ==
    LET name == attribute[1]
        value == attribute[2]
    IN  IF name.kind = "String"
        THEN Try(unwrap(IF name.utf8 THEN Some(name.val) ELSE None), LAMBDA key:
             IF key = "foreground" /\ value.kind = "Integer"
             THEN Try(unwrap(as_u64(value)), LAMBDA packed_color:
                  Ok([style EXCEPT !.colors.foreground = Some(unpack_color(packed_color))]))
             ELSE IF key = "background" /\ value.kind = "Integer"
             THEN Try(unwrap(as_u64(value)), LAMBDA packed_color:
                  Ok([style EXCEPT !.colors.background = Some(unpack_color(packed_color))]))
             ELSE IF key = "special" /\ value.kind = "Integer"
             THEN Try(unwrap(as_u64(value)), LAMBDA packed_color:
                  Ok([style EXCEPT !.colors.special = Some(unpack_color(packed_color))]))
             ELSE IF key = "reverse" /\ value.kind = "Boolean"
             THEN Ok([style EXCEPT !.reverse = value.val])
             ELSE IF key = "italic" /\ value.kind = "Boolean"
             THEN Ok([style EXCEPT !.italic = value.val])
             ELSE IF key = "bold" /\ value.kind = "Boolean"
             THEN Ok([style EXCEPT !.bold = value.val])
             ELSE IF key = "strikethrough" /\ value.kind = "Boolean"
             THEN Ok([style EXCEPT !.strikethrough = value.val])
             ELSE IF key = "underline" /\ value.kind = "Boolean"
             THEN Ok([style EXCEPT !.underline = value.val])
             ELSE IF key = "undercurl" /\ value.kind = "Boolean"
             THEN Ok([style EXCEPT !.undercurl = value.val])
             ELSE IF key = "blend" /\ value.kind = "Integer"
             THEN Try(unwrap(as_u64(value)), LAMBDA blend:
                  Ok([style EXCEPT !.blend = blend.val % 256]))
             ELSE Ok(style))
        ELSE Ok(style)

\* The loop of parse_hl_attr_define over the attribute map, from entry k on.
RECURSIVE hl_attributes(_, _, _)
hl_attributes(attributes, k, style) ==
    IF k > Len(attributes) THEN Ok(style)
    ELSE Try(hl_attribute(style, attributes[k]), LAMBDA next_style:
         hl_attributes(attributes, k + 1, next_style))

parse_hl_attr_define(hl_attr_define_arguments) ==
    IF Len(hl_attr_define_arguments) = 4 /\ hl_attr_define_arguments[2].kind = "Map"
    THEN Try(hl_attributes(hl_attr_define_arguments[2].val, 1,
                           Style_new(Colors_new(None, None, None))), LAMBDA style:
         Try(parse_u64(hl_attr_define_arguments[1]), LAMBDA id:
         Ok([ev |-> "HighlightAttributesDefine", id |-> id, style |-> style])))
    ELSE Err(InvalidEventFormat)

\* Variant of parse_optional_u64 that takes the last element of the cell as
\* absent; C9_GridLineCells must tell it from the source's.
parse_optional_u64_off_by_one(cell_contents, k) ==
    IF k < Len(cell_contents)
    THEN Try(parse_u64(cell_contents[k]), LAMBDA n: Ok(Some(n)))
    ELSE Ok(None)

\* Option<&Value>::map(parse_u64).transpose(): cell_contents.get(k - 1).
parse_optional_u64(cell_contents, k) ==
    IF k <= Len(cell_contents)
    THEN Try(parse_u64(cell_contents[k]), LAMBDA n: Ok(Some(n)))
    ELSE Ok(None)

parse_grid_line_cell(grid_line_cell) ==
    Try(parse_array(grid_line_cell), LAMBDA cell_contents:
    IF Len(cell_contents) = 0 THEN Err(InvalidEventFormat)
    ELSE Try(parse_string(cell_contents[1]), LAMBDA text:
         Try(parse_optional_u64(cell_contents, 2), LAMBDA highlight_id:
         Try(parse_optional_u64(cell_contents, 3), LAMBDA repeat:
         Ok([text |-> text, highlight_id |-> highlight_id, repeat |-> repeat])))))

\* cells.into_iter().map(parse_grid_line_cell).collect::<Result<Vec<_>>>(),
\* from cell k on: the first failing cell ends the collection.
RECURSIVE collect_grid_line_cells(_, _, _)
collect_grid_line_cells(cells, k, collected) ==
    IF k > Len(cells) THEN Ok(collected)
    ELSE Try(parse_grid_line_cell(cells[k]), LAMBDA cell:
         collect_grid_line_cells(cells, k + 1, Append(collected, cell)))

parse_grid_line(grid_line_arguments) ==
    IF Len(grid_line_arguments) = 4
    THEN Try(parse_u64(grid_line_arguments[1]), LAMBDA grid:
         Try(parse_u64(grid_line_arguments[2]), LAMBDA row:
         Try(parse_u64(grid_line_arguments[3]), LAMBDA column_start:
         Try(parse_array(grid_line_arguments[4]), LAMBDA cells:
         Try(collect_grid_line_cells(cells, 1, <<>>), LAMBDA parsed_cells:
         Ok([ev |-> "GridLine", grid |-> grid, row |-> row,
             column_start |-> column_start, cells |-> parsed_cells]))))))
    ELSE Err(InvalidEventFormat)

parse_clear(clear_arguments) ==
    IF Len(clear_arguments) = 1
    THEN Try(parse_u64(clear_arguments[1]), LAMBDA grid:
         Ok([ev |-> "Clear", grid |-> grid]))
    ELSE Err(InvalidEventFormat)

\* The slice pattern is [grid_id, column, row]: row is read from the third
\* argument and column from the second, and row is parsed before column.
parse_cursor_goto(cursor_goto_arguments) ==
    IF Len(cursor_goto_arguments) = 3
    THEN Try(parse_u64(cursor_goto_arguments[1]), LAMBDA grid:
         Try(parse_u64(cursor_goto_arguments[3]), LAMBDA row:
         Try(parse_u64(cursor_goto_arguments[2]), LAMBDA column:
         Ok([ev |-> "CursorGoto", grid |-> grid, row |-> row, column |-> column]))))
    ELSE Err(InvalidEventFormat)

parse_grid_scroll(grid_scroll_arguments) ==
    IF Len(grid_scroll_arguments) = 7
    THEN Try(parse_u64(grid_scroll_arguments[1]), LAMBDA grid:
         Try(parse_u64(grid_scroll_arguments[2]), LAMBDA top:
         Try(parse_u64(grid_scroll_arguments[3]), LAMBDA bottom:
         Try(parse_u64(grid_scroll_arguments[4]), LAMBDA left:
         Try(parse_u64(grid_scroll_arguments[5]), LAMBDA right:
         Try(parse_i64(grid_scroll_arguments[6]), LAMBDA rows:
         Try(parse_i64(grid_scroll_arguments[7]), LAMBDA columns:
         Ok([ev |-> "Scroll", grid |-> grid, top |-> top, bottom |-> bottom,
             left |-> left, right |-> right, rows |-> rows,
             columns |-> columns]))))))))
    ELSE Err(InvalidEventFormat)

(***************************************************************************)
(* Batch decoding: parse_redraw_event.                                     *)
(***************************************************************************)
\* The match of parse_redraw_event on the batch name: Some(event) or None.
possible_parsed_event(name, event_parameters) ==
    LET some(r) == Try(r, LAMBDA e: Ok(Some(e)))
    IN  CASE name = "set_title" -> some(parse_set_title(event_parameters))
          [] name = "set_icon" -> Ok(None)
          [] name = "mode_info_set" -> some(parse_mode_info_set(event_parameters))
          [] name = "option_set" -> Ok(None)
          [] name = "mode_change" -> some(parse_mode_change(event_parameters))
          [] name = "busy_start" -> Ok(Some([ev |-> "BusyStart"]))
          [] name = "busy_stop" -> Ok(Some([ev |-> "BusyStop"]))
          [] name = "flush" -> Ok(Some([ev |-> "Flush"]))
          [] name = "grid_resize" -> some(parse_grid_resize(event_parameters))
          [] name = "default_colors_set" -> some(parse_default_colors(event_parameters))
          [] name = "hl_attr_define" -> some(parse_hl_attr_define(event_parameters))
          [] name = "grid_line" -> some(parse_grid_line(event_parameters))
          [] name = "grid_clear" -> some(parse_clear(event_parameters))
          [] name = "grid_cursor_goto" -> some(parse_cursor_goto(event_parameters))
          [] name = "grid_scroll" -> some(parse_grid_scroll(event_parameters))
          [] OTHER -> Ok(None)

\* Variant of parse_occurrence that pushes the event at the front of
\* parsed_events; C8_EventsInPayloadOrder must tell it from the source's.
parse_occurrence_pushing_front(name, event, parsed_events) ==
    Try(parse_array(event), LAMBDA event_parameters:
    Try(possible_parsed_event(name, event_parameters), LAMBDA possible:
    IF possible # None THEN Ok(<<possible[1]>> \o parsed_events)
    ELSE Ok(parsed_events)))

\* Variant of parse_occurrence that passes over an element that is no array
\* instead of failing; C3_UnrecognizedSkippedWhenArrays must tell it from the
\* source's.
parse_occurrence_skipping_non_arrays(name, event, parsed_events) ==
    IF event.kind # "Array" THEN Ok(parsed_events)
    ELSE Try(possible_parsed_event(name, event.val), LAMBDA possible:
         IF possible # None THEN Ok(Append(parsed_events, possible[1]))
         ELSE Ok(parsed_events))

\* One iteration of the loop of parse_redraw_event: the occurrence `event`
\* under the batch name, pushed onto parsed_events when it yields an event.
parse_occurrence(name, event, parsed_events) ==
    Try(parse_array(event), LAMBDA event_parameters:
    Try(possible_parsed_event(name, event_parameters), LAMBDA possible:
    IF possible # None THEN Ok(Append(parsed_events, possible[1]))
    ELSE Ok(parsed_events)))

\* The loop of parse_redraw_event over events[1..], from element k on.
RECURSIVE parse_occurrences(_, _, _, _)
parse_occurrences(name, event_contents, k, parsed_events) ==
    IF k > Len(event_contents) THEN Ok(parsed_events)
    ELSE Try(parse_occurrence(name, event_contents[k], parsed_events), LAMBDA pushed:
         parse_occurrences(name, event_contents, k + 1, pushed))

\* Variant of parse_redraw_event whose loop does not skip the name (events[0..]
\* for events[1..]); C2_OneEventPerOccurrence must tell it from the source's.
parse_redraw_event_from_name(event_value) ==
    Try(parse_array(event_value), LAMBDA event_contents:
    IF Len(event_contents) = 0 THEN Err(InvalidEventFormat)
    ELSE Try(parse_string(event_contents[1]), LAMBDA name:
         parse_occurrences(name, event_contents, 1, <<>>)))

parse_redraw_event(event_value) ==
    Try(parse_array(event_value), LAMBDA event_contents:
    IF Len(event_contents) = 0 THEN Err(InvalidEventFormat)
    ELSE Try(parse_string(event_contents[1]), LAMBDA name:
         parse_occurrences(name, event_contents, 2, <<>>)))

(***************************************************************************)
(* The inputs explored: notifications whose payload is one batch element   *)
(* with one occurrence, the occurrence ranging over the well-formed        *)
(* argument array of its event and that array with a position replaced, an *)
(* argument dropped or an argument added; one batch element of every name  *)
(* followed by up to MaxOccurrences short arrays or values that are no     *)
(* arrays; notifications with up to MaxPayload batch elements of up to     *)
(* MaxOccurrences occurrences each; and batch elements whose occurrences   *)
(* decode to different events, alone, before and after another element.    *)
(***************************************************************************)
SeqsUpTo(S, n) == UNION {[1..k -> S] : k \in 0..n}

ArgumentlessNames == {"busy_start", "busy_stop", "flush"}
DecodedNames == {"set_title", "mode_info_set", "mode_change", "grid_resize",
                 "default_colors_set", "hl_attr_define", "grid_line",
                 "grid_clear", "grid_cursor_goto", "grid_scroll"}
ProducingNames == DecodedNames \cup ArgumentlessNames
IgnoredNames == {"set_icon", "option_set"}
UnrecognizedNames == {"future_event"}
BatchNames == ProducingNames \cup IgnoredNames \cup UnrecognizedNames

\* Values put at a position of an argument array, of every kind.
ValuePool == {Nil, Boolean(TRUE), Integer(-1), Integer(7), WideInteger(0),
              String("x"), BadString("x"), Array(<<>>), Map(<<>>)}

WellFormedCell == Array(<<String("a"), Integer(5), Integer(3)>>)
WellFormedModeInfo ==
    Map(<< <<String("cursor_shape"), String("block")>>,
           <<String("attr_id"), Integer(3)>>,
           <<String("name"), String("normal")>> >>)
WellFormedAttributes ==
    Map(<< <<String("foreground"), Integer(16711935)>>,
           <<String("bold"), Boolean(TRUE)>> >>)

WellFormed(name) ==
    CASE name = "set_title" -> <<String("title")>>
      [] name = "set_icon" -> <<String("icon")>>
      [] name = "mode_info_set" -> <<Boolean(TRUE), Array(<<WellFormedModeInfo>>)>>
      [] name = "option_set" -> <<String("guifont"), String("mono")>>
      [] name = "mode_change" -> <<String("normal"), Integer(1)>>
      [] name = "grid_resize" -> <<Integer(1), Integer(80), Integer(24)>>
      [] name = "default_colors_set" ->
            <<Integer(16777215), Integer(1193046), Integer(255), Integer(7), Integer(0)>>
      [] name = "hl_attr_define" ->
            <<Integer(4), WellFormedAttributes, Map(<<>>), Array(<<>>)>>
      [] name = "grid_line" ->
            <<Integer(1), Integer(2), Integer(3), Array(<<WellFormedCell>>)>>
      [] name = "grid_clear" -> <<Integer(1)>>
      [] name = "grid_cursor_goto" -> <<Integer(1), Integer(2), Integer(3)>>
      [] name = "grid_scroll" ->
            <<Integer(1), Integer(2), Integer(10), Integer(0), Integer(80),
              Integer(-1), Integer(0)>>
      [] name = "future_event" -> <<Integer(1)>>
      [] OTHER -> <<>>

\* The well-formed array with one position replaced by a value of any kind.
Replaced(name) ==
    {[WellFormed(name) EXCEPT ![p] = v] :
        p \in 1..Len(WellFormed(name)), v \in ValuePool}

\* Arrays of every length from 0 to one more than the well-formed one, the
\* first argument of any kind.
Resized(name) ==
    LET longer == WellFormed(name) \o <<Nil>>
        prefixes == {SubSeq(longer, 1, n) : n \in 0..Len(longer)}
    IN  prefixes \cup
        {[s EXCEPT ![1] = v] : s \in prefixes \ {<<>>}, v \in {String("x"), Integer(7)}}

\* Mode-info lists: info maps with a key that is no string, with a recognized
\* key holding the wrong kind, and an element that is no map.
ModeInfoLists ==
    LET entries == {<<String("cursor_shape"), String("vertical")>>,
                    <<String("cursor_shape"), String("other")>>,
                    <<String("cursor_shape"), Integer(1)>>,
                    <<String("attr_id"), Integer(9)>>,
                    <<String("attr_id"), Integer(-1)>>,
                    <<String("attr_id"), String("x")>>,
                    <<String("blinkon"), Integer(1)>>,
                    <<Integer(1), Integer(1)>>,
                    <<BadString("x"), Integer(1)>>}
    IN  {<<Map(<<e>>)>> : e \in entries}
        \cup {<<WellFormedModeInfo, Map(<<e>>)>> : e \in entries}
        \cup {<<WellFormedModeInfo, Integer(1)>>, <<>>}

\* Entries of an attribute map: every recognized key with values of the
\* right and of a wrong kind, an unrecognized key and keys that are no
\* (valid) string.
ColorKeys == {"foreground", "background", "special", "blend"}
FlagKeys == {"reverse", "italic", "bold", "strikethrough", "underline", "undercurl"}

AttributeEntries ==
    {<<String(k), v>> : k \in ColorKeys,
                        v \in {Integer(1193046), Integer(-1), String("red")}}
    \cup {<<String(k), v>> : k \in FlagKeys, v \in {Boolean(TRUE), Integer(1)}}
    \cup {<<String("bold"), Boolean(FALSE)>>,
          <<String("future_attr"), Boolean(TRUE)>>,
          <<Integer(1), Boolean(TRUE)>>,
          <<BadString("bold"), Boolean(TRUE)>>}

\* Cell arrays of 0 to 4 elements, each position of the right or a wrong
\* kind, and a cell that is no array.
CellValues ==
    LET texts == {String("a"), Integer(1)}
        ids == {Integer(5), String("b")}
        repeats == {Integer(3), Nil}
    IN  {Array(<<>>), String("a"), Array(<<BadString("a")>>)}
        \cup {Array(<<t>>) : t \in texts}
        \cup {Array(<<t, h>>) : t \in texts, h \in ids}
        \cup {Array(<<t, h, r>>) : t \in texts, h \in ids, r \in repeats}
        \cup {Array(<<String("a"), Integer(5), r, Integer(9)>>) : r \in repeats}

Occurrences(name) ==
    Replaced(name) \cup Resized(name)
    \cup (IF name = "mode_info_set"
          THEN {<<Boolean(TRUE), Array(l)>> : l \in ModeInfoLists} ELSE {})
    \cup (IF name = "hl_attr_define"
          THEN {<<String("x"), Map(<<e>>), Map(<<>>), Array(<<>>)>> :
                   e \in AttributeEntries}
          ELSE {})

\* A payload of one batch element with one element after the name.
BatchOfOne(name, occurrence) == <<Array(<<String(name), occurrence>>)>>

\* Batch elements of the longer payloads: a few occurrences per name, among
\* them one that fails with an error and one on which the decoder aborts, and
\* elements whose own framing is malformed.
SessionNames == {"set_title", "busy_start", "flush", "set_icon",
                 "future_event", "hl_attr_define"}

SessionOccurrences(name) ==
    CASE name = "set_title" -> {Array(<<String("title")>>), Array(<<Integer(7)>>)}
      [] name = "hl_attr_define" ->
            {Array(<<Integer(4), Map(<< <<String("foreground"), Integer(-1)>> >>),
                     Map(<<>>), Array(<<>>)>>)}
      [] OTHER -> {Array(WellFormed(name))}

MalformedElements ==
    {Integer(5), Array(<<>>), Array(<<Integer(1), Array(<<>>)>>),
     Array(<<BadString("flush"), Array(<<>>)>>)}

SessionElements ==
    UNION {{Array(<<String(n)>> \o occs) :
               occs \in SeqsUpTo(SessionOccurrences(n), MaxOccurrences)} :
           n \in SessionNames}
    \cup MalformedElements

\* Occurrences of one name that decode to different events, and one that
\* fails.
DistinctOccurrences(name) ==
    CASE name = "set_title" ->
            {Array(<<String("title")>>), Array(<<String("other")>>),
             Array(<<Integer(7)>>)}
      [] name = "grid_clear" ->
            {Array(<<Integer(1)>>), Array(<<Integer(2)>>), Array(<<>>)}

\* Payloads around a batch element: the element alone, followed by a flush
\* batch, and preceded by a busy_start batch.
Around(element) ==
    {<<element>>,
     <<element, Array(<<String("flush"), Array(<<>>)>>)>>,
     <<Array(<<String("busy_start"), Array(<<>>)>>), element>>}

(***************************************************************************)
(* Session dispatch: a call of parse_neovim_event.  result is Running      *)
(* until the call returns (Ok, Err) or aborts (Panic).                     *)
(***************************************************************************)
Running == [tag |-> "Running"]

\* The notification handed to the call.
Input(name, payload) ==
    /\ event_name = name
    /\ events = payload

Init ==
    /\ idx = 1
    /\ resulting_events = <<>>
    /\ result = Running
    /\ \/ \E n \in BatchNames : \E a \in Occurrences(n) :
             Input("redraw", BatchOfOne(n, Array(a)))
       \/ \E n \in BatchNames : \E v \in {Integer(7), Nil} :
             Input("redraw", BatchOfOne(n, v))
       \/ \E n \in BatchNames : \E k \in 0..MaxOccurrences :
          \E f \in [1..k -> {Array(<<>>), Array(<<Integer(1)>>), Integer(7)}] :
             Input("redraw", <<Array(<<String(n)>> \o f)>>)
       \/ \E k \in 0..MaxAttributes : \E m \in [1..k -> AttributeEntries] :
             Input("redraw", BatchOfOne("hl_attr_define",
                 Array(<<Integer(4), Map(m), Map(<<>>), Array(<<>>)>>)))
       \/ \E k \in 0..MaxCells : \E c \in [1..k -> CellValues] :
             Input("redraw", BatchOfOne("grid_line",
                 Array(<<Integer(1), Integer(2), Integer(3), Array(c)>>)))
       \/ \E k \in 0..MaxPayload : \E p \in [1..k -> SessionElements] :
             Input("redraw", p)
       \/ \E n \in {"set_title", "grid_clear"} : \E k \in 0..MaxOccurrences :
          \E occs \in [1..k -> DistinctOccurrences(n)] :
          \E p \in Around(Array(<<String(n)>> \o occs)) :
             Input("redraw", p)
       \/ \E k \in 0..1 : \E p \in [1..k -> SessionElements] :
             Input("msg_show", p)

\* Variant of append that puts the newly decoded events first;
\* C8_EventsInPayloadOrder must tell it from the source's.
append_front(resulting, parsed_events) == parsed_events \o resulting

\* Vec::append: the decoded events of one batch element go to the end.
append(resulting, parsed_events) == resulting \o parsed_events

\* Variant of DecodeBatchElement that drops a failing batch element and goes
\* on with the next (partial recovery); C7_FirstErrorAndNoEvents must tell it
\* from the source's.
DecodeBatchElementSkippingFailures ==
    /\ result = Running
    /\ event_name = "redraw"
    /\ idx <= Len(events)
    /\ LET parsed == parse_redraw_event(events[idx])
       IN  resulting_events' =
              IF IsOk(parsed) THEN resulting_events \o parsed.v ELSE resulting_events
    /\ idx' = idx + 1
    /\ UNCHANGED <<event_name, events, result>>

\* One iteration of the loop over the payload:
\* resulting_events.append(&mut parse_redraw_event(event)?).
DecodeBatchElement ==
    /\ result = Running
    /\ event_name = "redraw"
    /\ idx <= Len(events)
    /\ LET parsed == parse_redraw_event(events[idx])
       IN  \/ /\ IsOk(parsed)
              /\ resulting_events' = append(resulting_events, parsed.v)
              /\ idx' = idx + 1
              /\ UNCHANGED result
           \/ /\ ~IsOk(parsed)
              /\ result' = parsed
              /\ UNCHANGED <<idx, resulting_events>>
    /\ UNCHANGED <<event_name, events>>

\* The loop is over: Ok(resulting_events).
ReturnEvents ==
    /\ result = Running
    /\ event_name = "redraw"
    /\ idx > Len(events)
    /\ result' = Ok(resulting_events)
    /\ UNCHANGED <<event_name, events, idx, resulting_events>>

\* Any other notification name: nothing is decoded, Ok of no events.
UnknownGlobalEvent ==
    /\ result = Running
    /\ event_name # "redraw"
    /\ result' = Ok(resulting_events)
    /\ UNCHANGED <<event_name, events, idx, resulting_events>>

Next == DecodeBatchElement \/ ReturnEvents \/ UnknownGlobalEvent

Spec == Init /\ [][Next]_vars

(***************************************************************************)
(* Properties.                                                             *)
(***************************************************************************)
Done == result # Running

RecognizedNames == ProducingNames \cup IgnoredNames

\* A value is a batch element with a well-formed frame: an array that starts
\* with a string (valid UTF-8).
IsFramed(v) ==
    /\ v.kind = "Array"
    /\ Len(v.val) >= 1
    /\ v.val[1].kind = "String"
    /\ v.val[1].utf8

NameOf(v) == v.val[1].val
\* The elements that follow the name.
Following(v) == Tail(v.val)

\* The call decodes a "redraw" payload of exactly one framed batch element.
OneBatch ==
    /\ event_name = "redraw"
    /\ Len(events) = 1
    /\ IsFramed(events[1])

\* ... that holds exactly one occurrence, an array.
OneOccurrence ==
    /\ OneBatch
    /\ Len(Following(events[1])) = 1
    /\ Following(events[1])[1].kind = "Array"

TheName == NameOf(events[1])
TheArguments == Following(events[1])[1].val

\* The event of an argument-less name.
ArgumentlessEvent(name) ==
    CASE name = "busy_start" -> [ev |-> "BusyStart"]
      [] name = "busy_stop" -> [ev |-> "BusyStop"]
      [] name = "flush" -> [ev |-> "Flush"]

\* C1: every call returns an event sequence or an EventParseError; no input
\* makes the decoder abort.
C1_NeverAborts == ~IsPanic(result)

\* C2 as stated: a batch element that is only the name of an argument-less
\* event decodes to exactly one event of that kind, and the payload
\* [["busy_start"], ["flush"]] decodes to [BusyStart, Flush].
C2_NameAloneYieldsOneEvent ==
    /\ (Done /\ OneBatch /\ TheName \in ArgumentlessNames
             /\ Following(events[1]) = <<>>)
          => result = Ok(<<ArgumentlessEvent(TheName)>>)
    /\ (Done /\ event_name = "redraw"
             /\ events = <<Array(<<String("busy_start")>>), Array(<<String("flush")>>)>>)
          => result = Ok(<<[ev |-> "BusyStart"], [ev |-> "Flush"]>>)

\* C2 amended: a batch element naming an argument-less event decodes to one
\* event of that kind per occurrence array that follows the name, hence to
\* none when only the name is present: [["busy_start", []], ["flush", []]]
\* decodes to [BusyStart, Flush] and [["busy_start"], ["flush"]] to [].
C2_OneEventPerOccurrence ==
    /\ (Done /\ OneBatch /\ TheName \in ArgumentlessNames
             /\ \A k \in 1..Len(Following(events[1])) :
                   Following(events[1])[k].kind = "Array")
          => result = Ok([k \in 1..Len(Following(events[1])) |->
                             ArgumentlessEvent(TheName)])
    /\ (Done /\ event_name = "redraw"
             /\ events = <<Array(<<String("busy_start"), Array(<<>>)>>),
                           Array(<<String("flush"), Array(<<>>)>>)>>)
          => result = Ok(<<[ev |-> "BusyStart"], [ev |-> "Flush"]>>)
    /\ (Done /\ event_name = "redraw"
             /\ events = <<Array(<<String("busy_start")>>), Array(<<String("flush")>>)>>)
          => result = Ok(<<>>)

C2_Witness ==
    /\ events = <<Array(<<String("busy_start"), Array(<<>>)>>),
                  Array(<<String("flush"), Array(<<>>)>>)>>
    /\ result = Ok(<<[ev |-> "BusyStart"], [ev |-> "Flush"]>>)

\* C3 as stated: a batch element with an unrecognized name decodes to Ok of
\* no events whatever follows the name, elements that are no arrays included.
C3_UnrecognizedNeverFails ==
    (Done /\ OneBatch /\ TheName \notin RecognizedNames)
        => result = Ok(<<>>)

\* The first element after the name that is no array, 0 when all are arrays.
FirstNonArray(following) ==
    LET bad == {k \in 1..Len(following) : following[k].kind # "Array"}
    IN  IF bad = {} THEN 0 ELSE CHOOSE k \in bad : \A l \in bad : k <= l

\* C3 amended: a batch element with an unrecognized name decodes to Ok of no
\* events when every element after the name is an array, whatever the arrays
\* hold; an element that is no array fails the batch with InvalidArray
\* carrying that element.
C3_UnrecognizedSkippedWhenArrays ==
    (Done /\ OneBatch /\ TheName \notin RecognizedNames)
        => LET k == FirstNonArray(Following(events[1]))
           IN  IF k = 0 THEN result = Ok(<<>>)
               ELSE result = Err(InvalidArray(Following(events[1])[k]))

C3_Witness ==
    /\ OneOccurrence
    /\ TheName \notin RecognizedNames
    /\ Len(TheArguments) > 0
    /\ result = Ok(<<>>)

\* The argument count each event-producing name expects.
ExpectedCount(name) ==
    CASE name = "set_title" -> 1
      [] name = "mode_info_set" -> 2
      [] name = "mode_change" -> 2
      [] name = "grid_resize" -> 3
      [] name = "default_colors_set" -> 5
      [] name = "hl_attr_define" -> 4
      [] name = "grid_line" -> 4
      [] name = "grid_clear" -> 1
      [] name = "grid_cursor_goto" -> 3
      [] name = "grid_scroll" -> 7
      [] OTHER -> 0

\* C4 as stated: for every event-producing name, an occurrence array whose
\* length differs from the expected argument count (0 for busy_start,
\* busy_stop and flush) fails with InvalidEventFormat and yields no event.
C4_WrongLengthFails ==
    (Done /\ OneOccurrence /\ TheName \in ProducingNames
          /\ Len(TheArguments) # ExpectedCount(TheName))
        => result = Err(InvalidEventFormat)

\* C4 amended: for the ten names that have a decoder, an occurrence array
\* whose length differs from the expected argument count fails with
\* InvalidEventFormat and yields no event; busy_start, busy_stop and flush do
\* not look at the occurrence array, and an array of any length yields their
\* event.
C4_WrongLengthFailsForDecodedNames ==
    /\ (Done /\ OneOccurrence /\ TheName \in DecodedNames
             /\ Len(TheArguments) # ExpectedCount(TheName))
          => result = Err(InvalidEventFormat)
    /\ (Done /\ OneOccurrence /\ TheName \in ArgumentlessNames)
          => result = Ok(<<ArgumentlessEvent(TheName)>>)

C4_Witness ==
    /\ OneOccurrence
    /\ TheName = "grid_resize"
    /\ Len(TheArguments) = 2
    /\ result = Err(InvalidEventFormat)

\* The kind each position of an occurrence is read as; "Any" where the
\* position is not interpreted.
ExpectedKinds(name) ==
    CASE name = "set_title" -> <<"String">>
      [] name = "mode_info_set" -> <<"Any", "Array">>
      [] name = "mode_change" -> <<"Any", "U64">>
      [] name = "grid_resize" -> <<"U64", "U64", "U64">>
      [] name = "default_colors_set" -> <<"U64", "U64", "U64", "Any", "Any">>
      [] name = "hl_attr_define" -> <<"U64", "Map", "Any", "Any">>
      [] name = "grid_line" -> <<"U64", "U64", "U64", "Array">>
      [] name = "grid_clear" -> <<"U64">>
      [] name = "grid_cursor_goto" -> <<"U64", "U64", "U64">>
      [] name = "grid_scroll" -> <<"U64", "U64", "U64", "U64", "U64", "I64", "I64">>

HasKind(v, kind) ==
    CASE kind = "String" -> v.kind = "String" /\ v.utf8
      [] kind = "U64" -> v.kind = "Integer" /\ (v.wide \/ v.val >= 0)
      [] kind = "I64" -> v.kind = "Integer" /\ ~v.wide
      [] kind = "Array" -> v.kind = "Array"
      [] kind = "Map" -> v.kind = "Map"
      [] kind = "Any" -> TRUE

KindError(kind, v) ==
    CASE kind = "String" -> InvalidString(v)
      [] kind = "U64" -> InvalidU64(v)
      [] kind = "I64" -> InvalidI64(v)
      [] kind = "Array" -> InvalidArray(v)
      [] kind = "Map" -> InvalidMap(v)

\* The positions of the occurrence that hold a value of the wrong kind.
WrongPositions ==
    {p \in 1..Len(TheArguments) :
        ~HasKind(TheArguments[p], ExpectedKinds(TheName)[p])}

\* C5: in an occurrence of the correct length, an interpreted position that
\* holds a value of the wrong kind fails the decode with the kind-specific
\* error of that position, carrying the offending value; a value that is no
\* map in the attribute-map position of hl_attr_define included.
C5_WrongKindIsKindError ==
    (Done /\ OneOccurrence /\ TheName \in DecodedNames
          /\ Len(TheArguments) = ExpectedCount(TheName)
          /\ WrongPositions # {})
        => \E p \in WrongPositions :
              result = Err(KindError(ExpectedKinds(TheName)[p], TheArguments[p]))

\* An entry of the attribute map whose key is a recognized attribute name
\* and whose value has the wrong kind for it.
MalformedAttribute(entry) ==
    /\ entry[1].kind = "String"
    /\ entry[1].utf8
    /\ \/ /\ entry[1].val \in ColorKeys
          /\ ~HasKind(entry[2], "U64")
       \/ /\ entry[1].val \in FlagKeys
          /\ entry[2].kind # "Boolean"

\* C6: an hl_attr_define occurrence fails exactly when its attribute map has
\* an entry with a recognized key and a value of the wrong kind.
C6_FailsIffMalformedKnownAttribute ==
    (Done /\ OneOccurrence /\ TheName = "hl_attr_define"
          /\ Len(TheArguments) = 4
          /\ HasKind(TheArguments[1], "U64")
          /\ TheArguments[2].kind = "Map")
        => (IsErr(result) <=>
               \E k \in 1..Len(TheArguments[2].val) :
                   MalformedAttribute(TheArguments[2].val[k]))

\* C10: grid_cursor_goto [g, r, c] decodes to CursorGoto with grid = g,
\* row = r and column = c.
C10_CursorGotoIsGridRowColumn ==
    (Done /\ OneOccurrence /\ TheName = "grid_cursor_goto"
          /\ Len(TheArguments) = 3
          /\ \A p \in 1..3 : HasKind(TheArguments[p], "U64"))
        => result = Ok(<<[ev |-> "CursorGoto",
                          grid |-> parse_u64(TheArguments[1]).v,
                          row |-> parse_u64(TheArguments[2]).v,
                          column |-> parse_u64(TheArguments[3]).v]>>)

\* The outcome of the frame of a batch element alone: its name, or the
\* error of a value that is no array, is empty or does not start with a
\* string.
FrameOutcome(v) ==
    IF v.kind # "Array" THEN Err(InvalidArray(v))
    ELSE IF v.val = <<>> THEN Err(InvalidEventFormat)
    ELSE IF ~HasKind(v.val[1], "String") THEN Err(InvalidString(v.val[1]))
    ELSE Ok(v.val[1].val)

\* The units of work of the payload in payload order: <<i, 0>> is the frame
\* of payload element i and <<i, j>> its j-th occurrence.
Units ==
    UNION {{<<i, 0>>} \cup
           (IF IsFramed(events[i])
            THEN {<<i, j>> : j \in 1..Len(Following(events[i]))} ELSE {}) :
           i \in 1..Len(events)}

\* The outcome of one unit decoded on its own.
UnitOutcome(u) ==
    IF u[2] = 0 THEN FrameOutcome(events[u[1]])
    ELSE parse_occurrence(NameOf(events[u[1]]), Following(events[u[1]])[u[2]], <<>>)

Failing == {u \in Units : ~IsOk(UnitOutcome(u))}

Before(u, w) == u[1] < w[1] \/ (u[1] = w[1] /\ u[2] < w[2])

FirstFailing == CHOOSE u \in Failing : \A w \in Failing : u = w \/ Before(u, w)

\* C7: a call on a "redraw" payload has no partial result.  When the first
\* unit that does not decode fails with an error, the call returns exactly
\* that error and stops at its payload element; and every error the call
\* returns is the error of the first unit that does not decode.
C7_FirstErrorAndNoEvents ==
    (Done /\ event_name = "redraw")
        => /\ (Failing # {} /\ IsErr(UnitOutcome(FirstFailing)))
                 => (result = UnitOutcome(FirstFailing) /\ idx = FirstFailing[1])
           /\ IsErr(result)
                 => (Failing # {} /\ result = UnitOutcome(FirstFailing))
           /\ IsOk(result) => Failing = {}

\* An error after events were decoded from an earlier payload element and
\* from an earlier occurrence of the failing element.
C7_Witness ==
    /\ IsErr(result)
    /\ idx = 2
    /\ resulting_events # <<>>
    /\ FirstFailing[2] >= 2

\* The events of the units from <<i, j>> on, each decoded on its own.
RECURSIVE EventsFrom(_, _)
EventsFrom(i, j) ==
    IF i > Len(events) THEN <<>>
    ELSE IF j > Len(Following(events[i])) THEN EventsFrom(i + 1, 1)
    ELSE UnitOutcome(<<i, j>>).v \o EventsFrom(i, j + 1)

\* C8: when every occurrence decodes, the call returns the events of the
\* occurrences in payload order, one per occurrence of an event-producing
\* name and none per occurrence of set_icon, option_set or an unrecognized
\* name.
C8_EventsInPayloadOrder ==
    (Done /\ event_name = "redraw" /\ Failing = {})
        => /\ result = Ok(EventsFrom(1, 1))
           /\ \A u \in Units :
                 u[2] > 0 =>
                    Len(UnitOutcome(u).v) =
                       (IF NameOf(events[u[1]]) \in ProducingNames THEN 1 ELSE 0)
           /\ Len(result.v) =
                 Cardinality({u \in Units :
                     u[2] > 0 /\ NameOf(events[u[1]]) \in ProducingNames})

\* Two occurrences of one batch element that decode to different events,
\* followed by the event of a second payload element.
C8_Witness ==
    /\ IsOk(result)
    /\ Len(events) = 2
    /\ IsFramed(events[1])
    /\ Len(Following(events[1])) = 2
    /\ Len(result.v) = 3
    /\ result.v[1] # result.v[2]
    /\ result.v[2] # result.v[3]

\* A cell array of 1 to 3 elements: text, then highlight id, then repeat.
IsCell(c) ==
    /\ c.kind = "Array"
    /\ Len(c.val) \in 1..3
    /\ HasKind(c.val[1], "String")
    /\ \A k \in 2..Len(c.val) : HasKind(c.val[k], "U64")

NumberOf(v) == [val |-> v.val, wide |-> v.wide]

ExpectedCell(c) ==
    [text |-> c.val[1].val,
     highlight_id |-> IF Len(c.val) >= 2 THEN Some(NumberOf(c.val[2])) ELSE None,
     repeat |-> IF Len(c.val) = 3 THEN Some(NumberOf(c.val[3])) ELSE None]

\* C9: a cell array of 1 to 3 elements decodes to text = element 0,
\* highlight_id = Some(element 1) exactly when it has at least 2 elements,
\* repeat = Some(element 2) exactly when it has 3; the cells of the GridLine
\* event are those of the occurrence in number and order; a cell array with
\* no elements fails with InvalidEventFormat.
C9_GridLineCells ==
    (Done /\ OneOccurrence /\ TheName = "grid_line"
          /\ Len(TheArguments) = 4
          /\ \A p \in 1..3 : HasKind(TheArguments[p], "U64")
          /\ TheArguments[4].kind = "Array")
        => LET cells == TheArguments[4].val
           IN  /\ (\A k \in 1..Len(cells) : IsCell(cells[k]))
                     => result = Ok(<<[ev |-> "GridLine",
                                       grid |-> NumberOf(TheArguments[1]),
                                       row |-> NumberOf(TheArguments[2]),
                                       column_start |-> NumberOf(TheArguments[3]),
                                       cells |-> [k \in 1..Len(cells) |->
                                                     ExpectedCell(cells[k])]]>>)
               /\ (\E k \in 1..Len(cells) :
                       /\ cells[k] = Array(<<>>)
                       /\ \A l \in 1..(k - 1) : IsCell(cells[l]))
                     => result = Err(InvalidEventFormat)

C9_Witness ==
    /\ OneOccurrence
    /\ TheName = "grid_line"
    /\ IsOk(result)
    /\ Len(result.v[1].cells) = 2
    /\ result.v[1].cells[1].highlight_id = None
    /\ result.v[1].cells[2].repeat # None

====
